---------------------------- MODULE Spec2Model ----------------------------
(***************************************************************************)
(* A model of m2clust's tree cutting and cluster scoring                   *)
(* (src/m2clust/utilities.py).                                             *)
(*                                                                         *)
(* A ClusterNode is a record [id, count, dist, kids]: kids is <<>> for a   *)
(* leaf (left = right = None) and <<left, right>> for an internal node.    *)
(* Every function of utilities.py that the properties below are about is   *)
(* an operator computed the way the code computes it, and every loop of    *)
(* the code is a small state machine over a "frame" variable that holds    *)
(* the function's arguments and locals under their source names.           *)
(*                                                                         *)
(* Scores are exact rationals [n, d] (d > 0, lowest terms) or NaN, the     *)
(* value numpy yields for 0.0/0.0; every comparison with NaN is false, as  *)
(* in Python. The rounding of binary floating point is not modelled.       *)
(***************************************************************************)
EXTENDS Integers, Sequences, FiniteSets, TLC

VARIABLES chop, cut, ref, counts, pred, enr, num

vars == <<chop, cut, ref, counts, pred, enr, num>>

(***************************************************************************)
(* Bounds of the explored inputs.                                          *)
(***************************************************************************)
\* largest number of leaves of the trees handed to chop_tree
MaxChopLeaves == 4
\* longest node list handed to chop_tree
MaxNodes == 2
\* largest skip (expansion depth) handed to chop_tree
MaxSkip == 2
\* largest number of leaves of the trees handed to the cutter on its own
MaxCutLeaves == 5
\* largest target count handed to the cutter on its own
MaxCutTarget == 6
\* largest number of leaves of the trees handed to the refiner
MaxLeaves == 5
\* largest target count handed to the refiner
MaxTarget == 3
\* largest distance between two leaves
MaxDist == 1
\* leaves of each half of the trees refined under all three resolutions
HalfLeaves == 4
\* leaves of the trees the estimator is run on
MaxPredictLeaves == 16
\* last position of the cuts that shape those trees and their leaf kinds
MaxCut == 3
\* largest number of leaves of the trees whose clusters are scored
MaxEnrichLeaves == 4
\* merge heights are multiples of 1/dist_unit, dist_unit up to
MaxDistUnit == 2
\* largest number of metadata columns
MaxColumns == 2
\* largest number of leaves of the trees cut to a number of clusters
MaxCountLeaves == 4
\* largest merge height of those trees
MaxHeight == 2

\* the frame of a function that is not running
Idle == [pc |-> "idle"]

(***************************************************************************)
(* Sequence helpers (Python list operations).                              *)
(***************************************************************************)
\* del xs[i] for a 1-based index i
DelAt(xs, i) == [k \in 1..(Len(xs) - 1) |-> IF k < i THEN xs[k] ELSE xs[k + 1]]

\* the sequences over S of length 0..n
SeqsUpTo(S, n) == UNION {[1..k -> S] : k \in 0..n}

(***************************************************************************)
(* ClusterNode (scipy.cluster.hierarchy.ClusterNode, as the code reads it) *)
(***************************************************************************)
LeafNode(i) == [id |-> i, count |-> 1, dist |-> 0, kids |-> <<>>]

is_leaf(p) == p.kids = <<>>

\* p.left, p.right of an internal node
Left(p) == p.kids[1]
Right(p) == p.kids[2]

get_count(p) == p.count

\* cluster.pre_order(lambda x: x.id): the leaf ids, left subtree first
RECURSIVE pre_order(_)
pre_order(p) == IF is_leaf(p) THEN <<p.id>> ELSE pre_order(Left(p)) \o pre_order(Right(p))

get_leaves(cluster) == pre_order(cluster)

\* every node of the tree rooted at p
RECURSIVE NodesOf(_)
NodesOf(p) == IF is_leaf(p) THEN {p} ELSE {p} \cup NodesOf(Left(p)) \cup NodesOf(Right(p))

\* the leaf ids under a list of cluster roots, as a bag-free list
RECURSIVE LeavesOfList(_)
LeavesOfList(nodes) ==
    IF nodes = <<>> THEN <<>> ELSE pre_order(Head(nodes)) \o LeavesOfList(Tail(nodes))

SeqToSet(xs) == {xs[k] : k \in 1..Len(xs)}

\* no element occurs twice
NoDup(xs) == \A i, j \in 1..Len(xs) : xs[i] = xs[j] => i = j

\* the cluster roots in nodes split the leaves of root: disjoint, and all covered
IsPartitionOf(nodes, root) ==
    /\ NoDup(LeavesOfList(nodes))
    /\ SeqToSet(LeavesOfList(nodes)) = SeqToSet(pre_order(root))

(***************************************************************************)
(* The trees explored: every shape over the leaves lo..hi in leaf order;   *)
(* an internal node over lo..hi merges at height hi - lo (its leaf count   *)
(* less one, so heights grow towards the root) and takes the id            *)
(* n + (merge number), the ids scipy's to_tree gives: above every leaf id  *)
(* and above the ids of its children.                                      *)
(***************************************************************************)
RECURSIVE ShapesOver(_, _)
ShapesOver(lo, hi) ==
    IF lo = hi THEN {LeafNode(lo)}
    ELSE UNION {{[id |-> 0, count |-> hi - lo + 1, dist |-> hi - lo, kids |-> <<l, r>>]
                    : l \in ShapesOver(lo, k), r \in ShapesOver(k + 1, hi)}
                : k \in lo..(hi - 1)}

\* number the internal nodes of p in post-order from next on: [node, next]
RECURSIVE Number(_, _)
Number(p, next) ==
    IF is_leaf(p) THEN [node |-> p, next |-> next]
    ELSE LET l == Number(Left(p), next)
             r == Number(Right(p), l.next)
         IN [node |-> [p EXCEPT !.id = r.next, !.kids = <<l.node, r.node>>],
             next |-> r.next + 1]

\* the hierarchy trees with n leaves 0..n-1
TreesWith(n) == {Number(s, n).node : s \in ShapesOver(0, n - 1)}

(***************************************************************************)
(* chop_tree (utilities.py 69-107).                                        *)
(*                                                                         *)
(* For iLevel < iSkip the try block always fails: list() is called with    *)
(* the keyword arguments level and skip, a TypeError, which the bare       *)
(* except catches; the except block is what runs. Nodes are objects, so    *)
(* bool(x) is true of every node and any(cluster_nodes) says the list is   *)
(* not empty. At iSkip = iLevel an empty list is returned by `return []`;  *)
(* the raise that follows it is never executed.                            *)
(***************************************************************************)
\* [x for x in [(p.right if p.right else None) for p in cluster_nodes] if bool(x)]
RECURSIVE RightsOf(_)
RightsOf(cluster_nodes) ==
    IF cluster_nodes = <<>> THEN <<>>
    ELSE (IF is_leaf(Head(cluster_nodes)) THEN <<>> ELSE <<Right(Head(cluster_nodes))>>)
         \o RightsOf(Tail(cluster_nodes))

\* [x for x in [(q.left if q.left else None) for q in cluster_nodes] if bool(x)]
RECURSIVE LeftsOf(_)
LeftsOf(cluster_nodes) ==
    IF cluster_nodes = <<>> THEN <<>>
    ELSE (IF is_leaf(Head(cluster_nodes)) THEN <<>> ELSE <<Left(Head(cluster_nodes))>>)
         \o LeftsOf(Tail(cluster_nodes))

\* the value returned at iSkip = iLevel
ChopBase(cluster_nodes) == IF cluster_nodes # <<>> THEN cluster_nodes ELSE <<>>

\* one descent: the list handed to the recursive call
ChopDescend(cluster_nodes) == RightsOf(cluster_nodes) \o LeftsOf(cluster_nodes)

\* chop_tree(cluster_nodes, level, skip) for level <= skip
RECURSIVE chop_tree(_, _, _)
chop_tree(cluster_nodes, level, skip) ==
    IF level < skip THEN chop_tree(ChopDescend(cluster_nodes), level + 1, skip)
    ELSE ChopBase(cluster_nodes)

(***************************************************************************)
(* cutree_to_get_number_of_features (utilities.py 221-245).                *)
(*                                                                         *)
(* number_of_estimated_clusters is a positive integer, or NoTarget for the *)
(* default None, which the code replaces by math.sqrt(n_features).         *)
(***************************************************************************)
\* number_of_estimated_clusters=None
NoTarget == 0

\* the index (1-based) of the first cluster with the largest get_count()
RECURSIVE LargestFrom(_, _, _)
LargestFrom(sub_clusters, i, index) ==
    IF i > Len(sub_clusters) THEN index
    ELSE LargestFrom(sub_clusters, i + 1,
                     IF get_count(sub_clusters[index]) < get_count(sub_clusters[i])
                     THEN i ELSE index)

LargestIndex(sub_clusters) == LargestFrom(sub_clusters, 1, 1)

\* largest_node.get_count() > (n_features / number_of_estimated_clusters)
ExceedsShare(largest_node, n_features, number_of_estimated_clusters) ==
    IF number_of_estimated_clusters = NoTarget
    THEN get_count(largest_node) * get_count(largest_node) > n_features
    ELSE get_count(largest_node) * number_of_estimated_clusters > n_features

\* del sub_clusters[index]; sub_clusters += chop_tree([largest_node], level=0, skip=1)
ExpandLargest(sub_clusters, index) ==
    DelAt(sub_clusters, index) \o chop_tree(<<sub_clusters[index]>>, 0, 1)

\* the while loop, from a working list on: the list returned, or raised when
\* sub_clusters[0] is read from an empty list (IndexError)
RECURSIVE CutLoop(_, _, _)
CutLoop(sub_clusters, n_features, number_of_estimated_clusters) ==
    IF sub_clusters = <<>> THEN [raised |-> TRUE, value |-> <<>>]
    ELSE LET index == LargestIndex(sub_clusters)
         IN IF ExceedsShare(sub_clusters[index], n_features, number_of_estimated_clusters)
            THEN CutLoop(ExpandLargest(sub_clusters, index), n_features,
                         number_of_estimated_clusters)
            ELSE [raised |-> FALSE, value |-> sub_clusters]

cutree_to_get_number_of_features(cluster, number_of_estimated_clusters) ==
    IF get_count(cluster) = 1 THEN [raised |-> FALSE, value |-> <<cluster>>]
    ELSE CutLoop(chop_tree(<<cluster>>, 0, 1), get_count(cluster),
                 number_of_estimated_clusters)

(***************************************************************************)
(* Scores: numbers as numpy computes them, with exact rational arithmetic. *)
(***************************************************************************)
NaN == [n |-> 0, d |-> 0]

IsNaN(x) == x.n = 0 /\ x.d = 0

Abs(k) == IF k < 0 THEN -k ELSE k

RECURSIVE GCD(_, _)
GCD(a, b) == IF b = 0 THEN a ELSE GCD(b, a % b)

\* the rational n/d (d # 0) in lowest terms with a positive denominator
Rat(n, d) ==
    LET g == GCD(Abs(n), Abs(d))
    IN IF d > 0 THEN [n |-> n \div g, d |-> d \div g]
       ELSE [n |-> (-n) \div g, d |-> (-d) \div g]

Zero == [n |-> 0, d |-> 1]
One == [n |-> 1, d |-> 1]

\* sums, differences and quotients are taken over the least common
\* denominator, so that intermediate values stay small
RAdd(x, y) ==
    IF IsNaN(x) \/ IsNaN(y) THEN NaN
    ELSE LET g == GCD(x.d, y.d)
         IN Rat(x.n * (y.d \div g) + y.n * (x.d \div g), (x.d \div g) * y.d)
RSub(x, y) == IF IsNaN(y) THEN NaN ELSE RAdd(x, [n |-> -y.n, d |-> y.d])
\* x / y in numpy: 0/0 is nan (a warning, no exception); x/0 for x # 0 does not
\* arise below, where the divisor is max(a, b) >= |b - a|
RDiv(x, y) ==
    IF IsNaN(x) \/ IsNaN(y) \/ y.n = 0 THEN NaN
    ELSE LET gn == GCD(Abs(x.n), Abs(y.n))
             gd == GCD(x.d, y.d)
         IN Rat((x.n \div gn) * (y.d \div gd), (x.d \div gd) * (y.n \div gn))

\* a/b < c/d for b, d > 0, by integer parts and then the remainders
RECURSIVE FracLt(_, _, _, _)
FracLt(a, b, c, d) ==
    IF a \div b # c \div d THEN a \div b < c \div d
    ELSE IF c % d = 0 THEN FALSE
    ELSE IF a % b = 0 THEN TRUE
    ELSE FracLt(d, c % d, b, a % b)

\* x < y, x > y, x >= y, x == y: false as soon as one side is nan
RLt(x, y) == ~IsNaN(x) /\ ~IsNaN(y) /\ FracLt(x.n, x.d, y.n, y.d)
RGt(x, y) == RLt(y, x)
RGe(x, y) == ~IsNaN(x) /\ ~IsNaN(y) /\ ~FracLt(x.n, x.d, y.n, y.d)
REq(x, y) == ~IsNaN(x) /\ ~IsNaN(y) /\ x = y

\* Python's min(a, b) and max(a, b): the first argument unless the second is
\* strictly smaller (larger)
Min2(x, y) == IF RLt(y, x) THEN y ELSE x
Max2(x, y) == IF RGt(y, x) THEN y ELSE x

RECURSIVE RSum(_)
RSum(xs) == IF xs = <<>> THEN Zero ELSE RAdd(Head(xs), RSum(Tail(xs)))

\* np.mean(xs): nan for an empty list (a warning, no exception)
np_mean(xs) == IF xs = <<>> THEN NaN ELSE RDiv(RSum(xs), [n |-> Len(xs), d |-> 1])

\* Python's min(xs) and max(xs) of a non-empty list: the running value is
\* replaced only by an item strictly below (above) it
RECURSIVE MinFrom(_, _)
MinFrom(xs, m) == IF xs = <<>> THEN m ELSE MinFrom(Tail(xs), Min2(m, Head(xs)))
py_min(xs) == MinFrom(Tail(xs), Head(xs))

RECURSIVE MaxFrom(_, _)
MaxFrom(xs, m) == IF xs = <<>> THEN m ELSE MaxFrom(Tail(xs), Max2(m, Head(xs)))
py_max(xs) == MaxFrom(Tail(xs), Head(xs))

(***************************************************************************)
(* silhouette_coefficient (utilities.py 114-151). distance_matrix is a     *)
(* function of the two leaf ids. The caller passes at least two clusters   *)
(* (fewer is sys.exit, which the callers below guard).                     *)
(***************************************************************************)
\* np.mean([distance_matrix.iloc[i, j] for i, j in product([a_feature], others)])
RECURSIVE DistSum(_, _, _)
DistSum(distance_matrix, a_feature, others) ==
    IF others = <<>> THEN 0
    ELSE distance_matrix[a_feature][Head(others)]
         + DistSum(distance_matrix, a_feature, Tail(others))

MeanDist(distance_matrix, a_feature, others) ==
    IF others = <<>> THEN NaN ELSE Rat(DistSum(distance_matrix, a_feature, others), Len(others))

\* temp_a_features.remove(a_feature): the list without its first a_feature
RECURSIVE RemoveFirst(_, _)
RemoveFirst(xs, x) ==
    IF xs = <<>> THEN <<>>
    ELSE IF Head(xs) = x THEN Tail(xs) ELSE <<Head(xs)>> \o RemoveFirst(Tail(xs), x)

\* s for one member a_feature of cluster_a
SilhouetteOf(distance_matrix, a_feature, cluster_a, next_cluster, prev_cluster) ==
    LET a == IF Len(cluster_a) = 1 THEN Zero
             ELSE MeanDist(distance_matrix, a_feature, RemoveFirst(cluster_a, a_feature))
        b1 == MeanDist(distance_matrix, a_feature, next_cluster)
        b2 == MeanDist(distance_matrix, a_feature, prev_cluster)
        b == Min2(b1, b2)
    IN RDiv(RSub(b, a), Max2(a, b))

\* np.mean(s_all_a) for cluster i (1-based) of clusters
ClusterSilhouette(clusters, distance_matrix, i) ==
    LET cluster_a == pre_order(clusters[i])
        next_cluster == IF i = Len(clusters) THEN pre_order(clusters[i - 1])
                        ELSE pre_order(clusters[i + 1])
        prev_cluster == IF i = 1 THEN pre_order(clusters[i + 1])
                        ELSE pre_order(clusters[i - 1])
    IN np_mean([k \in 1..Len(cluster_a) |->
                   SilhouetteOf(distance_matrix, cluster_a[k], cluster_a,
                                next_cluster, prev_cluster)])

silhouette_coefficient(clusters, distance_matrix) ==
    [i \in 1..Len(clusters) |-> ClusterSilhouette(clusters, distance_matrix, i)]

(***************************************************************************)
(* get_homogenous_clusters_silhouette (utilities.py 154-218): the parts of *)
(* one iteration of its loop.                                              *)
(***************************************************************************)
Resolutions == <<"low", "medium", "high">>

\* the index (1-based) of the first cluster with the minimum score
RECURSIVE MinSilFrom(_, _, _)
MinSilFrom(sub_silhouette_coefficient, i, index) ==
    IF i > Len(sub_silhouette_coefficient) THEN index
    ELSE MinSilFrom(sub_silhouette_coefficient, i + 1,
                    IF RGt(sub_silhouette_coefficient[index], sub_silhouette_coefficient[i])
                    THEN i ELSE index)

MinSilIndex(sub_silhouette_coefficient) == MinSilFrom(sub_silhouette_coefficient, 1, 1)

\* [value for value in scores if value != 1.0]
RECURSIVE DropOnes(_)
DropOnes(scores) ==
    IF scores = <<>> THEN <<>>
    ELSE (IF REq(Head(scores), One) THEN <<>> ELSE <<Head(scores)>>) \o DropOnes(Tail(scores))

\* the aggregate of the candidate scores the current score is compared with
Aggregate(resolution, scores) ==
    CASE resolution = "low" -> py_min(scores)
      [] resolution = "high" -> py_max(scores)
      [] resolution = "medium" -> np_mean(scores)

\* the test of lines 191, 200, 209: keep the cluster whole and mark it 1.0
Rejects(resolution, current, scores) ==
    IF Len(scores) = 0 THEN TRUE ELSE RGe(current, Aggregate(resolution, scores))

\* a variant that keeps the worst cluster beside its children
AcceptClusters_NoDel(sub_clusters, index, clusters_to_add) ==
    sub_clusters \o clusters_to_add

\* the else branches: the worst cluster and its score leave, its children come
AcceptClusters(sub_clusters, index, clusters_to_add) ==
    DelAt(sub_clusters, index) \o clusters_to_add

\* a variant that puts the children's scores in front of the kept scores
AcceptScores_Front(sub_silhouette_coefficient, index, temp_silhouette_coefficient) ==
    temp_silhouette_coefficient \o DelAt(sub_silhouette_coefficient, index)

AcceptScores(sub_silhouette_coefficient, index, temp_silhouette_coefficient) ==
    DelAt(sub_silhouette_coefficient, index) \o temp_silhouette_coefficient

(***************************************************************************)
(* A call of chop_tree on its own: any list of nodes of a tree, any level  *)
(* and skip.                                                               *)
(***************************************************************************)
InitChop ==
    /\ \E n \in 1..MaxChopLeaves :
          \E t \in TreesWith(n), l \in 0..MaxSkip, s \in 0..MaxSkip :
              \E ns \in SeqsUpTo(NodesOf(t), MaxNodes) :
                  chop = [pc |-> "call", cluster_nodes |-> ns, level |-> l, skip |-> s,
                          result |-> <<>>]
    /\ cut = Idle
    /\ ref = Idle
    /\ counts = <<>>
    /\ num = Idle
    /\ pred = Idle
    /\ enr = Idle

\* level <= skip: one of the two branches runs and returns a list
ChopReturn ==
    /\ chop.pc = "call"
    /\ chop.level <= chop.skip
    /\ chop' = [chop EXCEPT !.pc = "returned",
                            !.result = chop_tree(chop.cluster_nodes, chop.level, chop.skip)]
    /\ UNCHANGED <<cut, ref, counts, pred, enr, num>>

\* level > skip: neither branch runs, the function falls off its end (None)
ChopFallThrough ==
    /\ chop.pc = "call"
    /\ chop.level > chop.skip
    /\ chop' = [chop EXCEPT !.pc = "none"]
    /\ UNCHANGED <<cut, ref, counts, pred, enr, num>>

NextChop == ChopReturn \/ ChopFallThrough

SpecChop == InitChop /\ [][NextChop]_vars

(***************************************************************************)
(* A call of cutree_to_get_number_of_features on its own, one loop         *)
(* iteration a step.                                                       *)
(***************************************************************************)
InitCut ==
    /\ \E n \in 1..MaxCutLeaves :
          \E t \in TreesWith(n), k \in {NoTarget} \cup (1..MaxCutTarget) :
              cut = [pc |-> "call", cluster |-> t, number_of_estimated_clusters |-> k,
                     n_features |-> get_count(t), sub_clusters |-> <<>>]
    /\ chop = Idle
    /\ ref = Idle
    /\ counts = <<>>
    /\ num = Idle
    /\ pred = Idle
    /\ enr = Idle

\* if n_features == 1: return [cluster]
CutSingle ==
    /\ cut.pc = "call"
    /\ cut.n_features = 1
    /\ cut' = [cut EXCEPT !.pc = "returned", !.sub_clusters = <<cut.cluster>>]
    /\ UNCHANGED <<chop, ref, counts, pred, enr, num>>

\* sub_clusters = chop_tree([cluster], level=0, skip=1)
CutFirstExpansion ==
    /\ cut.pc = "call"
    /\ cut.n_features # 1
    /\ cut' = [cut EXCEPT !.pc = "loop", !.sub_clusters = chop_tree(<<cut.cluster>>, 0, 1)]
    /\ UNCHANGED <<chop, ref, counts, pred, enr, num>>

\* an iteration that replaces the largest cluster by its one-level expansion
CutExpand ==
    /\ cut.pc = "loop"
    /\ cut.sub_clusters # <<>>
    /\ LET index == LargestIndex(cut.sub_clusters)
       IN /\ ExceedsShare(cut.sub_clusters[index], cut.n_features,
                          cut.number_of_estimated_clusters)
          /\ cut' = [cut EXCEPT !.sub_clusters = ExpandLargest(cut.sub_clusters, index)]
    /\ UNCHANGED <<chop, ref, counts, pred, enr, num>>

\* the iteration that takes the else branch: break, return sub_clusters
CutStop ==
    /\ cut.pc = "loop"
    /\ cut.sub_clusters # <<>>
    /\ ~ExceedsShare(cut.sub_clusters[LargestIndex(cut.sub_clusters)], cut.n_features,
                     cut.number_of_estimated_clusters)
    /\ cut' = [cut EXCEPT !.pc = "returned"]
    /\ UNCHANGED <<chop, ref, counts, pred, enr, num>>

\* largest_node = sub_clusters[0] on an empty working list: IndexError
CutIndexError ==
    /\ cut.pc = "loop"
    /\ cut.sub_clusters = <<>>
    /\ cut' = [cut EXCEPT !.pc = "IndexError"]
    /\ UNCHANGED <<chop, ref, counts, pred, enr, num>>

NextCut == CutSingle \/ CutFirstExpansion \/ CutExpand \/ CutStop \/ CutIndexError

SpecCut == InitCut /\ [][NextCut]_vars

(***************************************************************************)
(* The distance matrices explored: every leaf is of one of two kinds, and  *)
(* the distance of two different leaves is `near` when their kinds agree   *)
(* and `far` when they differ (near = 0 < far: two groups of duplicates;   *)
(* near = far: all leaves equidistant). Symmetric, zero on the diagonal.   *)
(***************************************************************************)
KindsOf(n) == {k \in [0..(n - 1) -> {0, 1}] : k[0] = 0}

MatrixOf(n, kind, near, far) ==
    [i \in 0..(n - 1) |-> [j \in 0..(n - 1) |->
        IF i = j THEN 0 ELSE IF kind[i] = kind[j] THEN near ELSE far]]

MatricesOf(n) ==
    {MatrixOf(n, kind, near, far) : kind \in KindsOf(n), near \in 0..MaxDist, far \in 0..MaxDist}

(***************************************************************************)
(* A call of get_homogenous_clusters_silhouette (utilities.py 154-218),    *)
(* one loop iteration a step. iterations counts the iterations begun.      *)
(***************************************************************************)
RefCall(cluster, distance_matrix, number_of_estimated_clusters, resolution) ==
    [pc |-> "call", cluster |-> cluster, distance_matrix |-> distance_matrix,
     number_of_estimated_clusters |-> number_of_estimated_clusters,
     resolution |-> resolution, sub_clusters |-> <<>>,
     sub_silhouette_coefficient |-> <<>>, iterations |-> 0]

Init ==
    /\ \E n \in 1..MaxLeaves :
          \E t \in TreesWith(n), m \in MatricesOf(n), k \in 1..MaxTarget,
             r \in SeqToSet(Resolutions) :
              ref = RefCall(t, m, k, r)
    /\ chop = Idle
    /\ cut = Idle
    /\ counts = <<>>
    /\ num = Idle
    /\ pred = Idle
    /\ enr = Idle

\* if n == 1: return [cluster]
RefSingle ==
    /\ ref.pc = "call"
    /\ get_count(ref.cluster) = 1
    /\ ref' = [ref EXCEPT !.pc = "returned", !.sub_clusters = <<ref.cluster>>]
    /\ UNCHANGED <<chop, cut, counts, pred, enr, num>>

\* lines 162-164: the first cut and its scores; the cutter's IndexError
\* propagates, and fewer than two clusters would end in sys.exit
RefFirstCut ==
    /\ ref.pc = "call"
    /\ get_count(ref.cluster) # 1
    /\ LET c == cutree_to_get_number_of_features(ref.cluster,
                                                 ref.number_of_estimated_clusters)
       IN ref' = IF c.raised THEN [ref EXCEPT !.pc = "IndexErrorFirstCut"]
                 ELSE IF Len(c.value) <= 1 THEN [ref EXCEPT !.pc = "SystemExit"]
                 ELSE [ref EXCEPT !.pc = "loop", !.sub_clusters = c.value,
                                  !.sub_silhouette_coefficient =
                                      silhouette_coefficient(c.value, ref.distance_matrix)]
    /\ UNCHANGED <<chop, cut, counts, pred, enr, num>>

\* the locals of the iteration that starts in the current state
min_silhouette_node_index == MinSilIndex(ref.sub_silhouette_coefficient)
min_silhouette_node == ref.sub_clusters[min_silhouette_node_index]
sub_clusters_to_check ==
    cutree_to_get_number_of_features(min_silhouette_node, ref.number_of_estimated_clusters)
clusters_to_add == chop_tree(<<min_silhouette_node>>, 0, 1)
temp_silhouette_coefficient == silhouette_coefficient(clusters_to_add, ref.distance_matrix)
temp_sub_silhouette_coefficient_to_check ==
    DropOnes(silhouette_coefficient(sub_clusters_to_check.value, ref.distance_matrix))

\* the minimum score is 1.0: break
Halts == REq(ref.sub_silhouette_coefficient[min_silhouette_node_index], One)
\* the iteration reaches the resolution policy
ReachesPolicy ==
    /\ ref.pc = "loop"
    /\ ~Halts
    /\ ~sub_clusters_to_check.raised
    /\ Len(clusters_to_add) >= 2
    /\ Len(sub_clusters_to_check.value) >= 2

RefHalt ==
    /\ ref.pc = "loop"
    /\ Halts
    /\ ref' = [ref EXCEPT !.pc = "returned", !.iterations = @ + 1]
    /\ UNCHANGED <<chop, cut, counts, pred, enr, num>>

\* the loop is left without a verdict on the split: the sub-cut of the worst
\* cluster raises IndexError (line 178), or there are fewer than two children
\* or fewer than two candidates (lines 181-185: break)
RefLeave ==
    /\ ref.pc = "loop"
    /\ ~Halts
    /\ ~ReachesPolicy
    /\ ref' = [ref EXCEPT !.pc = IF sub_clusters_to_check.raised
                                 THEN "IndexErrorSubCut" ELSE "returned",
                          !.iterations = @ + 1]
    /\ UNCHANGED <<chop, cut, counts, pred, enr, num>>

\* the split is rejected: the worst cluster's score becomes 1.0
RefReject ==
    /\ ReachesPolicy
    /\ Rejects(ref.resolution, ref.sub_silhouette_coefficient[min_silhouette_node_index],
               temp_sub_silhouette_coefficient_to_check)
    /\ ref' = [ref EXCEPT !.sub_silhouette_coefficient[min_silhouette_node_index] = One,
                          !.iterations = @ + 1]
    /\ UNCHANGED <<chop, cut, counts, pred, enr, num>>

\* the split is accepted
RefAccept ==
    /\ ReachesPolicy
    /\ ~Rejects(ref.resolution, ref.sub_silhouette_coefficient[min_silhouette_node_index],
                temp_sub_silhouette_coefficient_to_check)
    /\ ref' = [ref EXCEPT !.sub_clusters =
                              AcceptClusters(ref.sub_clusters, min_silhouette_node_index,
                                             clusters_to_add),
                          !.sub_silhouette_coefficient =
                              AcceptScores(ref.sub_silhouette_coefficient,
                                           min_silhouette_node_index,
                                           temp_silhouette_coefficient),
                          !.iterations = @ + 1]
    /\ UNCHANGED <<chop, cut, counts, pred, enr, num>>

Next == RefSingle \/ RefFirstCut \/ RefHalt \/ RefLeave \/ RefReject \/ RefAccept

Spec == Init /\ [][Next]_vars

(***************************************************************************)
(* The refiner run on one input under low, then medium, then high (the     *)
(* resolution argument of main_run), the lengths of the three returned     *)
(* lists kept in counts. The trees join two halves of HalfLeaves leaves.   *)
(***************************************************************************)
JoinedTrees ==
    {Number([id |-> 0, count |-> 2 * HalfLeaves, dist |-> 2 * HalfLeaves - 1,
             kids |-> <<l, r>>], 2 * HalfLeaves).node
        : l \in ShapesOver(0, HalfLeaves - 1),
          r \in ShapesOver(HalfLeaves, 2 * HalfLeaves - 1)}

InitRes ==
    /\ \E t \in JoinedTrees, m \in MatricesOf(2 * HalfLeaves), k \in 2..MaxTarget :
          ref = RefCall(t, m, k, Resolutions[1])
    /\ chop = Idle
    /\ cut = Idle
    /\ counts = <<>>
    /\ num = Idle
    /\ pred = Idle
    /\ enr = Idle

\* the caller records len(clusters) and calls again with the next resolution
RefNextResolution ==
    /\ ref.pc = "returned"
    /\ counts' = Append(counts, Len(ref.sub_clusters))
    /\ ref' = IF Len(counts) + 1 < Len(Resolutions)
              THEN RefCall(ref.cluster, ref.distance_matrix,
                           ref.number_of_estimated_clusters, Resolutions[Len(counts) + 2])
              ELSE [ref EXCEPT !.pc = "compared"]
    /\ UNCHANGED <<chop, cut, pred, enr, num>>

NextRes == RefFirstCut \/ RefHalt \/ RefLeave \/ RefReject \/ RefAccept
           \/ RefNextResolution

SpecRes == InitRes /\ [][NextRes]_vars

(***************************************************************************)
(* cutree_to_get_number_of_clusters (utilities.py 40-66), called with an   *)
(* integer number_of_estimated_clusters as predict_best_number_of_clusters *)
(* calls it (distance_matrix is then unused).                              *)
(***************************************************************************)
\* lines 52-57: the first cluster with the largest merge distance
RECURSIVE MaxDistFrom(_, _, _)
MaxDistFrom(sub_clusters, i, max_dist_node_index) ==
    IF i > Len(sub_clusters) THEN max_dist_node_index
    ELSE MaxDistFrom(sub_clusters, i + 1,
                     IF sub_clusters[max_dist_node_index].dist < sub_clusters[i].dist
                     THEN i ELSE max_dist_node_index)

MaxDistIndex(sub_clusters) == MaxDistFrom(sub_clusters, 1, 1)

\* lines 59-63: the children take the place of the expanded cluster
ExpandMaxDist(sub_clusters, max_dist_node_index) ==
    LET sub_clusters_to_add == chop_tree(<<sub_clusters[max_dist_node_index]>>, 0, 1)
    IN SubSeq(sub_clusters, 1, max_dist_node_index - 1)
       \o <<sub_clusters_to_add[1]>>
       \o (IF Len(sub_clusters_to_add) = 2 THEN <<sub_clusters_to_add[2]>> ELSE <<>>)
       \o SubSeq(sub_clusters, max_dist_node_index + 1, Len(sub_clusters))

\* the while loop of lines 51-65
RECURSIVE CountLoop(_, _)
CountLoop(sub_clusters, number_of_sub_cluters_threshold) ==
    IF Len(sub_clusters) >= number_of_sub_cluters_threshold THEN sub_clusters
    ELSE LET max_dist_node_index == MaxDistIndex(sub_clusters)
         IN IF is_leaf(sub_clusters[max_dist_node_index]) THEN sub_clusters
            ELSE CountLoop(ExpandMaxDist(sub_clusters, max_dist_node_index),
                           number_of_sub_cluters_threshold)

cutree_to_get_number_of_clusters(cluster, number_of_estimated_clusters) ==
    IF get_count(cluster) = 1 THEN <<cluster>>
    ELSE CountLoop(chop_tree(<<cluster>>, 0, 1), number_of_estimated_clusters)

(***************************************************************************)
(* A call of cutree_to_get_number_of_clusters, one loop iteration a step.  *)
(* The trees: every shape over the leaves, every merge height 0..MaxHeight *)
(* for its internal nodes that does not decrease towards the root (a       *)
(* height of 0 joins duplicates; equal heights are ties).                  *)
(***************************************************************************)
RECURSIVE HeightShapes(_, _, _)
HeightShapes(lo, hi, top) ==
    IF lo = hi THEN {LeafNode(lo)}
    ELSE UNION {{[id |-> 0, count |-> hi - lo + 1, dist |-> h, kids |-> <<l, r>>]
                    : l \in HeightShapes(lo, k, h), r \in HeightShapes(k + 1, hi, h)}
                : k \in lo..(hi - 1), h \in 0..top}

HeightTrees(n) == {Number(s, n).node : s \in HeightShapes(0, n - 1, MaxHeight)}

NumCall(cluster, number_of_estimated_clusters) ==
    [pc |-> "call", cluster |-> cluster,
     number_of_sub_cluters_threshold |-> number_of_estimated_clusters,
     n_features |-> get_count(cluster), sub_clusters |-> <<>>]

InitCount ==
    /\ \E n \in 1..MaxCountLeaves :
          \E t \in HeightTrees(n), k \in 1..(MaxCountLeaves + 1) : num = NumCall(t, k)
    /\ chop = Idle
    /\ cut = Idle
    /\ ref = Idle
    /\ counts = <<>>
    /\ pred = Idle
    /\ enr = Idle

\* lines 42-43
NumSingle ==
    /\ num.pc = "call"
    /\ num.n_features = 1
    /\ num' = [num EXCEPT !.pc = "returned", !.sub_clusters = <<num.cluster>>]
    /\ UNCHANGED <<chop, cut, ref, counts, pred, enr>>

\* line 50
NumFirstExpansion ==
    /\ num.pc = "call"
    /\ num.n_features # 1
    /\ num' = [num EXCEPT !.pc = "loop", !.sub_clusters = chop_tree(<<num.cluster>>, 0, 1)]
    /\ UNCHANGED <<chop, cut, ref, counts, pred, enr>>

\* lines 52-63: the cluster with the largest merge distance is expanded
NumExpand ==
    /\ num.pc = "loop"
    /\ Len(num.sub_clusters) < num.number_of_sub_cluters_threshold
    /\ ~is_leaf(num.sub_clusters[MaxDistIndex(num.sub_clusters)])
    /\ num' = [num EXCEPT !.sub_clusters =
                              ExpandMaxDist(num.sub_clusters, MaxDistIndex(num.sub_clusters))]
    /\ UNCHANGED <<chop, cut, ref, counts, pred, enr>>

\* lines 64-66: the cluster with the largest merge distance is a leaf, break
NumBreak ==
    /\ num.pc = "loop"
    /\ Len(num.sub_clusters) < num.number_of_sub_cluters_threshold
    /\ is_leaf(num.sub_clusters[MaxDistIndex(num.sub_clusters)])
    /\ num' = [num EXCEPT !.pc = "returned"]
    /\ UNCHANGED <<chop, cut, ref, counts, pred, enr>>

\* lines 51, 66: the list has the number of clusters asked for
NumReturn ==
    /\ num.pc = "loop"
    /\ Len(num.sub_clusters) >= num.number_of_sub_cluters_threshold
    /\ num' = [num EXCEPT !.pc = "returned"]
    /\ UNCHANGED <<chop, cut, ref, counts, pred, enr>>

NextCount == NumSingle \/ NumFirstExpansion \/ NumExpand \/ NumBreak \/ NumReturn

SpecCount == InitCount /\ [][NextCount]_vars

(***************************************************************************)
(* predict_best_number_of_clusters (utilities.py 15-37).                   *)
(***************************************************************************)
\* math.ceil(math.log(n, 2)) for n >= 1: the least c with 2^c >= n
RECURSIVE CeilLog2From(_, _)
CeilLog2From(n, c) == IF 2 ^ c >= n THEN c ELSE CeilLog2From(n, c + 1)
CeilLog2(n) == CeilLog2From(n, 0)

\* line 20, for two leaves or more (one leaf divides by zero; the callers
\* pass a linkage tree, and cutree_to_get_number_of_clusters returns before)
MaxNumCluster(n) == n \div CeilLog2(n)

\* lines 25-27
RemoveSingletons(clusters) ==
    LET removed_singlton_clusters == SelectSeq(clusters, LAMBDA c : get_count(c) > 1)
    IN IF Len(removed_singlton_clusters) < 2 THEN clusters ELSE removed_singlton_clusters

\* line 29: [sil for sil in ... if sil < 1.0]
BelowOne(scores) == SelectSeq(scores, LAMBDA sil : RLt(sil, One))

\* lines 24-30: the cut of candidate i and its mean score
CandidateScore(hierarchy_tree, distance_matrix, i) ==
    np_mean(BelowOne(silhouette_coefficient(
        RemoveSingletons(cutree_to_get_number_of_clusters(hierarchy_tree, i)),
        distance_matrix)))

\* a variant in which an equal mean replaces the best
Improves_OrEqual(best_sil_score, sil_score) == RGe(sil_score, best_sil_score)

\* line 31
Improves(best_sil_score, sil_score) == RLt(best_sil_score, sil_score)

(***************************************************************************)
(* The inputs of the estimator: a root over the leaves 0..n-1 that joins   *)
(* the leaves 0..s and s+1..n-1; the side that holds the leaf m joins the  *)
(* left combs before and after the cut at m, the other side is a left      *)
(* comb. Merge heights as in ShapesOver. The leaves up to c are of one     *)
(* kind and the leaves after c of the other (KindsOf, MatrixOf).           *)
(***************************************************************************)
RECURSIVE Comb(_, _)
Comb(lo, hi) ==
    IF lo = hi THEN LeafNode(lo)
    ELSE [id |-> 0, count |-> hi - lo + 1, dist |-> hi - lo,
          kids |-> <<Comb(lo, hi - 1), LeafNode(hi)>>]

\* the subtree over lo..hi, cut after m when m lies in lo..hi-1
CombsAround(lo, m, hi) ==
    IF m >= lo /\ m < hi
    THEN [id |-> 0, count |-> hi - lo + 1, dist |-> hi - lo,
          kids |-> <<Comb(lo, m), Comb(m + 1, hi)>>]
    ELSE Comb(lo, hi)

BlockTree(n, s, m) ==
    Number([id |-> 0, count |-> n, dist |-> n - 1,
            kids |-> <<CombsAround(0, m, s), CombsAround(s + 1, m, n - 1)>>], n).node

\* the cuts s, m, c explored for n leaves
CutsOf(n) == {k \in 0..MaxCut : k <= n - 2}

KindsUpTo(n, c) == [i \in 0..(n - 1) |-> IF i <= c THEN 0 ELSE 1]

(***************************************************************************)
(* A call of predict_best_number_of_clusters, one candidate a step. tried  *)
(* lists the candidates in the order the loop took them;                   *)
(* result_sub_clusters is <<>> until line 34 assigns it.                   *)
(***************************************************************************)
PredCall(hierarchy_tree, distance_matrix) ==
    [pc |-> "call", hierarchy_tree |-> hierarchy_tree, distance_matrix |-> distance_matrix,
     i |-> 0, max_num_cluster |-> 0, best_sil_score |-> Zero, best_clust_size |-> 1,
     clusters |-> <<>>, result_sub_clusters |-> <<>>, tried |-> <<>>]

InitPredict ==
    /\ \E n \in 2..MaxPredictLeaves :
          \E s \in CutsOf(n), m \in CutsOf(n), c \in CutsOf(n),
             near \in 0..MaxDist, far \in 0..MaxDist :
              pred = PredCall(BlockTree(n, s, m), MatrixOf(n, KindsUpTo(n, c), near, far))
    /\ chop = Idle
    /\ cut = Idle
    /\ ref = Idle
    /\ counts = <<>>
    /\ num = Idle
    /\ enr = Idle

\* lines 17-22
PredStart ==
    /\ pred.pc = "call"
    /\ pred' = [pred EXCEPT !.pc = "loop", !.i = 2,
                            !.max_num_cluster =
                                MaxNumCluster(Len(get_leaves(pred.hierarchy_tree)))]
    /\ UNCHANGED <<chop, cut, ref, counts, enr, num>>

\* a candidate whose mean score is above the best so far (lines 24-34)
PredImprove ==
    /\ pred.pc = "loop"
    /\ pred.i < pred.max_num_cluster
    /\ LET clusters == cutree_to_get_number_of_clusters(pred.hierarchy_tree, pred.i)
           sil_score == CandidateScore(pred.hierarchy_tree, pred.distance_matrix, pred.i)
       IN /\ Improves(pred.best_sil_score, sil_score)
          /\ pred' = [pred EXCEPT !.clusters = clusters, !.best_sil_score = sil_score,
                                  !.best_clust_size = Len(clusters),
                                  !.result_sub_clusters = clusters,
                                  !.tried = Append(@, pred.i), !.i = @ + 1]
    /\ UNCHANGED <<chop, cut, ref, counts, enr, num>>

\* a candidate that leaves the best as it is (lines 24-31)
PredKeep ==
    /\ pred.pc = "loop"
    /\ pred.i < pred.max_num_cluster
    /\ ~Improves(pred.best_sil_score,
                 CandidateScore(pred.hierarchy_tree, pred.distance_matrix, pred.i))
    /\ pred' = [pred EXCEPT !.clusters =
                                cutree_to_get_number_of_clusters(pred.hierarchy_tree, pred.i),
                            !.tried = Append(@, pred.i), !.i = @ + 1]
    /\ UNCHANGED <<chop, cut, ref, counts, enr, num>>

\* line 37: return best_clust_size, clusters
PredReturn ==
    /\ pred.pc = "loop"
    /\ pred.i >= pred.max_num_cluster
    /\ pred' = [pred EXCEPT !.pc = "returned"]
    /\ UNCHANGED <<chop, cut, ref, counts, enr, num>>

NextPredict == PredStart \/ PredImprove \/ PredKeep \/ PredReturn

SpecPredict == InitPredict /\ [][NextPredict]_vars

(***************************************************************************)
(* resolution_score (utilities.py 307-311). The merge height of a node is  *)
(* node.dist / dist_unit. to_tree gives an internal node a numpy float for *)
(* dist and a leaf the Python number 0, so a division by zero can only     *)
(* have a numpy operand: it yields inf (a warning), not an exception.      *)
(***************************************************************************)
Half == [n |-> 1, d |-> 2]
PosInf == [n |-> 1, d |-> 0]

ResolutionScoreOf(count, n, dist) ==
    LET rest == RSub(One, dist)
    IN IF rest.n = 0 THEN Zero
       ELSE LET x == RAdd(RDiv(Half, Rat(count, n)), RDiv(Half, rest))
            IN IF x.n = 0 THEN PosInf ELSE RDiv(One, x)

RECURSIVE SumCounts(_)
SumCounts(clusters) ==
    IF clusters = <<>> THEN 0 ELSE get_count(Head(clusters)) + SumCounts(Tail(clusters))

resolution_score(clusters, dist_unit) ==
    [i \in 1..Len(clusters) |->
        ResolutionScoreOf(get_count(clusters[i]), SumCounts(clusters),
                          Rat(clusters[i].dist, dist_unit))]

(***************************************************************************)
(* m2clust_enrichment_score (utilities.py 248-296) and most_common         *)
(* (299-304). A metadata column is [name, values], values a function of    *)
(* the leaf id; metadata is the list of columns (<<>> for None).           *)
(***************************************************************************)
ColumnNames == <<"a", "b">>
Categories == {0, 1}

\* freq_value: the number of members with the most frequent category
most_common(values, cluster_members) ==
    LET freq(v) == Cardinality({k \in 1..Len(cluster_members) : values[cluster_members[k]] = v})
    IN CHOOSE f \in {freq(v) : v \in Categories} : \A v \in Categories : freq(v) <= f

\* lines 254-255: the columns with two distinct values or more
Scored(metadata) ==
    SelectSeq(metadata, LAMBDA column :
        Cardinality({column.values[i] : i \in DOMAIN column.values}) >= 2)

\* lines 256-266: one column's score for each cluster
MetaScores(column, clusters) ==
    [i \in 1..Len(clusters) |->
        Rat(most_common(column.values, pre_order(clusters[i])), Len(pre_order(clusters[i])))]

\* lines 249-271: the mapping returned, from a column name to its scores
EnrichmentScores(clusters, metadata, dist_unit) ==
    [name \in {Scored(metadata)[k].name : k \in 1..Len(Scored(metadata))}
              \cup {"resolution_score", "n"} |->
        IF name = "resolution_score" THEN resolution_score(clusters, dist_unit)
        ELSE IF name = "n" THEN [i \in 1..Len(clusters) |-> Rat(get_count(clusters[i]), 1)]
        ELSE MetaScores(CHOOSE column \in SeqToSet(metadata) : column.name = name, clusters)]

\* line 273: the rows with resolution_score > 0.05
KeptRows(scores) ==
    SelectSeq([i \in 1..Len(scores) |-> i],
              LAMBDA i : scores[i] = PosInf \/ RGt(scores[i], [n |-> 1, d |-> 20]))

\* the mean of a metadata column over the kept rows
ColumnMean(column_scores, rows) == np_mean([k \in 1..Len(rows) |-> column_scores[rows[k]]])

\* line 277 and lines 291-294: n and resolution_score first, then the metadata
\* columns by mean, highest first (columns of equal mean in either order)
IsRanking(sorted_keys, scores, rows) ==
    LET metas == (DOMAIN scores) \ {"resolution_score", "n"}
    IN /\ Len(sorted_keys) = Cardinality(DOMAIN scores)
       /\ sorted_keys[1] = "n"
       /\ sorted_keys[2] = "resolution_score"
       /\ {sorted_keys[k] : k \in 3..Len(sorted_keys)} = metas
       /\ \A k \in 3..(Len(sorted_keys) - 1) :
             RGe(ColumnMean(scores[sorted_keys[k]], rows),
                 ColumnMean(scores[sorted_keys[k + 1]], rows))

(***************************************************************************)
(* A call of m2clust_enrichment_score on a cluster list of the tree: a cut *)
(* of it, the list the refiner starts from and returns when its loop halts *)
(* at once.                                                                *)
(***************************************************************************)
ClusterListsOf(tree) ==
    {cutree_to_get_number_of_features(tree, t).value :
        t \in {k \in 1..MaxTarget : ~cutree_to_get_number_of_features(tree, k).raised}}

\* the metadata tables over n leaves: up to MaxColumns columns
MetadataOver(n) ==
    UNION {{[k \in 1..c |-> [name |-> ColumnNames[k], values |-> v[k]]]
               : v \in [1..c -> [0..(n - 1) -> Categories]]}
           : c \in 0..MaxColumns}

EnrCall(clusters, metadata, dist_unit) ==
    [pc |-> "call", clusters |-> clusters, metadata |-> metadata, dist_unit |-> dist_unit,
     metadata_enrichment_score |-> <<>>, rows |-> <<>>, sorted_keys |-> <<>>,
     size_to_plot |-> 0]

InitEnrich ==
    /\ \E n \in 1..MaxEnrichLeaves :
          \E tree \in TreesWith(n), metadata \in MetadataOver(n), dist_unit \in 1..MaxDistUnit :
             \E clusters \in ClusterListsOf(tree) :
                 enr = EnrCall(clusters, metadata, dist_unit)
    /\ chop = Idle
    /\ cut = Idle
    /\ ref = Idle
    /\ counts = <<>>
    /\ num = Idle
    /\ pred = Idle

\* lines 249-272: the score mapping
EnrScore ==
    /\ enr.pc = "call"
    /\ enr' = [enr EXCEPT !.pc = "scored",
                          !.metadata_enrichment_score =
                              EnrichmentScores(enr.clusters, enr.metadata, enr.dist_unit)]
    /\ UNCHANGED <<chop, cut, ref, counts, pred, num>>

\* line 273: the rows under the floor leave the table
EnrFilter ==
    /\ enr.pc = "scored"
    /\ enr' = [enr EXCEPT !.pc = "filtered",
                          !.rows = KeptRows(enr.metadata_enrichment_score["resolution_score"])]
    /\ UNCHANGED <<chop, cut, ref, counts, pred, num>>

\* line 281 on a table without rows: min() of an empty sequence, ValueError
EnrValueError ==
    /\ enr.pc = "filtered"
    /\ enr.rows = <<>>
    /\ enr' = [enr EXCEPT !.pc = "ValueError"]
    /\ UNCHANGED <<chop, cut, ref, counts, pred, num>>

\* lines 277-296 on a table with rows
EnrReturn ==
    /\ enr.pc = "filtered"
    /\ enr.rows # <<>>
    /\ \E sorted_keys \in SeqsUpTo(DOMAIN enr.metadata_enrichment_score, MaxColumns + 2) :
          /\ IsRanking(sorted_keys, enr.metadata_enrichment_score, enr.rows)
          /\ enr' = [enr EXCEPT !.pc = "returned", !.sorted_keys = sorted_keys,
                                !.size_to_plot =
                                    py_min([k \in 1..Len(enr.rows) |->
                                        enr.metadata_enrichment_score["n"][enr.rows[k]]]).n]
    /\ UNCHANGED <<chop, cut, ref, counts, pred, num>>

NextEnrich == EnrScore \/ EnrFilter \/ EnrValueError \/ EnrReturn

SpecEnrich == InitEnrich /\ [][NextEnrich]_vars

(***************************************************************************)
(* Properties of chop_tree.                                                *)
(***************************************************************************)
\* the one-level expansion as described: for every input node its right child if
\* it has one, else the node itself (a leaf); then every input node's left child
RECURSIVE RightsOrSelf(_)
RightsOrSelf(nodes) ==
    IF nodes = <<>> THEN <<>>
    ELSE <<IF is_leaf(Head(nodes)) THEN Head(nodes) ELSE Right(Head(nodes))>>
         \o RightsOrSelf(Tail(nodes))

OneLevelCall == chop.pc = "returned" /\ chop.level = 0 /\ chop.skip = 1

\* C6: chop_tree(nodes, level=0, skip=1) returns the right children of the internal
\* input nodes in input order, then the left children in input order, with a leaf
\* of the input contributing itself: the result covers the leaf ids the input
\* covers, and the expansion of a non-empty list of leaves is not empty.
C6_OneLevelExpansionKeepsLeaves ==
    OneLevelCall =>
        /\ chop.result = RightsOrSelf(chop.cluster_nodes) \o LeftsOf(chop.cluster_nodes)
        /\ SeqToSet(LeavesOfList(chop.result)) = SeqToSet(LeavesOfList(chop.cluster_nodes))
        /\ (chop.cluster_nodes # <<>> => chop.result # <<>>)

\* C7: a call on a list of nodes that has to descend (level < skip) never returns
\* the empty list: on arriving at the target depth with no node left it fails with
\* an error (malformed tree).
C7_EmptyAfterDescentFails ==
    (chop.pc = "returned" /\ chop.level < chop.skip /\ chop.cluster_nodes # <<>>)
        => chop.result # <<>>

(***************************************************************************)
(* Properties of cutree_to_get_number_of_features.                         *)
(***************************************************************************)
\* a root with at least two leaves and a positive target
CutOfTree == cut.pc \in {"loop", "returned"} /\ cut.n_features >= 2
             /\ cut.number_of_estimated_clusters # NoTarget

\* C4: for a root with L >= 2 leaves and any positive target t (t > L included)
\* the working list is a partition of the root's leaves after the first expansion
\* and after every expansion step, and so is the returned list.
C4_CutKeepsPartition ==
    CutOfTree => IsPartitionOf(cut.sub_clusters, cut.cluster)

\* C5: for every root with L >= 1 leaves and every positive target t the cutter
\* returns a list (it never aborts), and every returned cluster has a leaf count
\* of at most max(1, L/t).
C5_CutReturnsBounded ==
    cut.number_of_estimated_clusters # NoTarget =>
        /\ cut.pc # "IndexError"
        /\ cut.pc = "returned" =>
              \A k \in 1..Len(cut.sub_clusters) :
                  \/ get_count(cut.sub_clusters[k]) <= 1
                  \/ get_count(cut.sub_clusters[k]) * cut.number_of_estimated_clusters
                        <= cut.n_features

(***************************************************************************)
(* Properties of get_homogenous_clusters_silhouette.                       *)
(***************************************************************************)
\* C1: at every iteration of the refinement loop and on return, under every
\* resolution, the clusters of the working list are pairwise disjoint and cover
\* the leaves of the tree.
C1_RefinerKeepsPartition ==
    ref.pc \in {"loop", "returned"} => IsPartitionOf(ref.sub_clusters, ref.cluster)

\* a run on L >= 2 leaves with t >= 2 that accepted a split and returned
C1_Witness ==
    /\ ref.pc = "returned"
    /\ get_count(ref.cluster) >= 2
    /\ ref.number_of_estimated_clusters >= 2
    /\ Len(ref.sub_clusters) >
          Len(cutree_to_get_number_of_features(ref.cluster,
                                               ref.number_of_estimated_clusters).value)

\* C2: for t >= 2 the loop ends by returning a list after a number of iterations
\* linear in L (at most 3 L: L - 1 splits, L rejections, one halt), and never
\* aborts with an error raised from the sub-cut of the worst cluster.
C2_RefinerReturns ==
    ref.pc # "idle" /\ ref.number_of_estimated_clusters >= 2 =>
        /\ ref.pc # "IndexErrorSubCut"
        /\ ref.iterations <= 3 * get_count(ref.cluster)

\* C3: on the same tree, distance matrix and target count the number of clusters
\* returned grows with the resolution: count(low) <= count(medium) <= count(high).
C3_CountMonotoneInResolution ==
    Len(counts) = Len(Resolutions) => counts[1] <= counts[2] /\ counts[2] <= counts[3]

(***************************************************************************)
(* Properties of predict_best_number_of_clusters.                          *)
(***************************************************************************)
\* C8: when some candidate was selected, the cluster list returned is the cut
\* that produced the best mean score and its length is the count returned.
C8_ReturnsSelectedClustering ==
    pred.pc = "returned" /\ pred.result_sub_clusters # <<>> =>
        /\ pred.clusters = pred.result_sub_clusters
        /\ Len(pred.clusters) = pred.best_clust_size

\* the candidates of the call and their mean scores
Candidates == 2..(pred.max_num_cluster - 1)
ScoreAt(k) == CandidateScore(pred.hierarchy_tree, pred.distance_matrix, k)
\* the candidates with the highest positive mean that no earlier one equals
FirstBest ==
    {k \in Candidates :
        /\ RGt(ScoreAt(k), Zero)
        /\ \A j \in Candidates :
              RGt(ScoreAt(j), Zero) =>
                  /\ RGe(ScoreAt(k), ScoreAt(j))
                  /\ (j < k => RGt(ScoreAt(k), ScoreAt(j)))}

\* C9: the candidates 2, 3, ... below floor(L / ceil(log2 L)) are tried in
\* increasing order, and the count reported is that of the first candidate with
\* the highest positive mean, or 1 when no candidate has a positive mean or
\* none is tried.
C9_ReportsFirstBest ==
    pred.pc = "returned" =>
        /\ pred.tried = [j \in 1..Cardinality(Candidates) |-> j + 1]
        /\ IF FirstBest = {} THEN pred.best_clust_size = 1
           ELSE FirstBest = {pred.best_clust_size}

\* a call that tried two candidates with equal positive means
C9_Witness ==
    /\ pred.pc = "returned"
    /\ Len(pred.tried) = 2
    /\ RGt(ScoreAt(2), Zero)
    /\ REq(ScoreAt(2), ScoreAt(3))
    /\ pred.best_clust_size = 2

(***************************************************************************)
(* Properties of m2clust_enrichment_score.                                 *)
(***************************************************************************)
\* C10: when the resolution-score floor removes every cluster row, the call
\* does not raise: it returns the score mapping and a ranked column list that
\* holds no metadata column.
C10_AllFilteredStillReturns ==
    enr.pc \in {"ValueError", "returned"} /\ enr.rows = <<>> =>
        /\ enr.pc = "returned"
        /\ enr.sorted_keys = <<"n", "resolution_score">>

(***************************************************************************)
(* Properties of cutree_to_get_number_of_clusters.                         *)
(***************************************************************************)
\* C11: for 2 <= k <= L and merge heights that are non-negative and monotone
\* (zero heights and ties included) the list returned has exactly k clusters
\* and is a partition of the leaves.
C11_CutsToExactlyK ==
    /\ num.pc = "returned"
    /\ num.number_of_sub_cluters_threshold >= 2
    /\ num.number_of_sub_cluters_threshold <= num.n_features
    => /\ Len(num.sub_clusters) = num.number_of_sub_cluters_threshold
       /\ IsPartitionOf(num.sub_clusters, num.cluster)

(***************************************************************************)
(* Properties of the iterations of get_homogenous_clusters_silhouette.     *)
(***************************************************************************)
\* the working lists after the step hold, entry by entry, the old entries but
\* the one at index i, in their order, followed by the children and their scores
ReplacedByChildren(i, children, scores) ==
    LET old_len == Len(ref.sub_clusters)
    IN /\ Len(ref'.sub_clusters) = old_len - 1 + Len(children)
       /\ Len(ref'.sub_silhouette_coefficient) = old_len - 1 + Len(children)
       /\ \A k \in 1..(old_len - 1) :
             /\ ref'.sub_clusters[k] = ref.sub_clusters[IF k < i THEN k ELSE k + 1]
             /\ ref'.sub_silhouette_coefficient[k] =
                    ref.sub_silhouette_coefficient[IF k < i THEN k ELSE k + 1]
       /\ \A j \in 1..Len(children) :
             /\ ref'.sub_clusters[old_len - 1 + j] = children[j]
             /\ ref'.sub_silhouette_coefficient[old_len - 1 + j] = scores[j]

\* only the score at index i changes, and it becomes 1.0
OnlyScoreSetToOne(i) ==
    /\ ref'.sub_clusters = ref.sub_clusters
    /\ Len(ref'.sub_silhouette_coefficient) = Len(ref.sub_silhouette_coefficient)
    /\ \A k \in 1..Len(ref.sub_silhouette_coefficient) :
          ref'.sub_silhouette_coefficient[k] =
              IF k = i THEN One ELSE ref.sub_silhouette_coefficient[k]

IterationEffect ==
    ref.pc = "loop" /\ ref'.pc = "loop" /\ ref'.iterations = ref.iterations + 1 =>
        IF Rejects(ref.resolution,
                   ref.sub_silhouette_coefficient[min_silhouette_node_index],
                   temp_sub_silhouette_coefficient_to_check)
        THEN OnlyScoreSetToOne(min_silhouette_node_index)
        ELSE ReplacedByChildren(min_silhouette_node_index,
                                chop_tree(<<min_silhouette_node>>, 0, 1),
                                silhouette_coefficient(chop_tree(<<min_silhouette_node>>, 0, 1),
                                                       ref.distance_matrix))

ScoresAligned ==
    ref.pc \in {"loop", "returned"} /\ get_count(ref.cluster) >= 2 =>
        Len(ref.sub_silhouette_coefficient) = Len(ref.sub_clusters)

\* C12: an iteration that does not leave the loop either rejects the split, and
\* then only the worst cluster's score changes, to 1.0, or accepts it, and then
\* the worst cluster and its score are replaced by its one-level children and
\* their scores among each other, appended after the others, which keep their
\* values and order; the score list always has the length of the cluster list.
C12_IterationEffect == [][IterationEffect]_vars /\ []ScoresAligned

\* after at least one rejection and at least one acceptance, still in the loop:
\* every acceptance adds one cluster to the first cut, every other iteration
\* that stays in the loop is a rejection
C12_Witness ==
    /\ ref.pc = "loop"
    /\ Len(ref.sub_clusters) >
          Len(cutree_to_get_number_of_features(ref.cluster,
                                               ref.number_of_estimated_clusters).value)
    /\ ref.iterations >
          Len(ref.sub_clusters) -
              Len(cutree_to_get_number_of_features(ref.cluster,
                                                   ref.number_of_estimated_clusters).value)

\* the verdict each resolution would give on the split of the current state
AcceptedUnder(resolution) ==
    ~Rejects(resolution, ref.sub_silhouette_coefficient[min_silhouette_node_index],
             temp_sub_silhouette_coefficient_to_check)

\* C13: in an iteration that reaches the policy step the split is rejected when
\* no candidate score is left or the current score is at least the minimum
\* (low), mean (medium) or maximum (high) of the candidate scores; so in one
\* state a split accepted under low is accepted under medium, and one accepted
\* under medium is accepted under high.
C13_AcceptanceGrowsWithResolution ==
    ReachesPolicy =>
        /\ AcceptedUnder("low") => AcceptedUnder("medium")
        /\ AcceptedUnder("medium") => AcceptedUnder("high")

\* a cluster that has score 1.0 before the step is in the list after it, with
\* score 1.0
OnesStay ==
    ref.pc = "loop" /\ ref'.pc \in {"loop", "returned"} =>
        \A k \in 1..Len(ref.sub_clusters) :
            REq(ref.sub_silhouette_coefficient[k], One) =>
                \E j \in 1..Len(ref'.sub_clusters) :
                    /\ ref'.sub_clusters[j] = ref.sub_clusters[k]
                    /\ REq(ref'.sub_silhouette_coefficient[j], One)

\* the step from a state whose selected score is 1.0 returns the list as it is
HaltsOnOne ==
    ref.pc = "loop" /\ REq(ref.sub_silhouette_coefficient[min_silhouette_node_index], One) =>
        ref'.pc = "returned" /\ ref'.sub_clusters = ref.sub_clusters

\* the index the scan selects holds the least of the scores that are numbers,
\* and no earlier index holds a score as small
SelectsFirstMinimum ==
    ref.pc = "loop" =>
        /\ \A j \in 1..Len(ref.sub_silhouette_coefficient) :
              ~IsNaN(ref.sub_silhouette_coefficient[j]) =>
                  RGe(ref.sub_silhouette_coefficient[j],
                      ref.sub_silhouette_coefficient[min_silhouette_node_index])
        /\ \A j \in 1..(min_silhouette_node_index - 1) :
              ~REq(ref.sub_silhouette_coefficient[j],
                   ref.sub_silhouette_coefficient[min_silhouette_node_index])

\* C14: a cluster whose score is 1.0 is never split again: it keeps its place
\* in the working list with score 1.0 in every later state and is in the list
\* returned; each iteration selects the first cluster with the minimum score,
\* and the loop halts as soon as that minimum is 1.0.
C14_OnesAreFinal == [][OnesStay /\ HaltsOnOne]_vars /\ []SelectsFirstMinimum

=============================================================================
